---- MODULE Spec2Model ----
(***************************************************************************)
(* A model of calibre2yac's ComicSyncManager (sync_libraries.py): one      *)
(* sync pass per tag reconciles an output tree against the tagged part of  *)
(* a Calibre catalog, using a JSON cache of the previous snapshot.         *)
(*                                                                         *)
(* Representation.  A string is a sequence of one-character strings, so    *)
(* that sanitising, lower-casing, number formatting and suffix tests are   *)
(* computed and not assumed.  A path below the output root is the sequence *)
(* of its components.  An optional value (SQL NULL / Python None) is the   *)
(* empty sequence, a present value v is <<v>>.  A series index is held in  *)
(* tenths (30 is 3.0), which is the precision the path deriver prints.     *)
(* The content of a materialised file is the identity of the source file   *)
(* it was made from, <<book id, format>>; books.path and data.name, which  *)
(* only locate that source file, and data.uncompressed_size, which nothing *)
(* reads, are left out of the records.                                     *)
(***************************************************************************)
EXTENDS Integers, Sequences, FiniteSets, TLC

VARIABLES
    db,               \* the Calibre catalog: book id -> row of books joined with its tags and formats
    files,            \* regular files and symlinks below the output root: path -> entry
    dirs,             \* the directories of the output tree; <<>> is the output root
    cacheFile,        \* content of <output>/.metadata_cache.json
    method,           \* the global LIBRARY_METHOD
    pc,               \* position of the coordinator inside sync_tag: idle, process, remove, save, sweep
    tag,              \* the tag of the pass under way (or of the last one)
    current_metadata, \* sync_tag's local: the snapshot read from the catalog
    to_process,       \* sync_tag's local: operations to materialise
    to_remove,        \* sync_tag's local: paths to delete
    pendingP,         \* operations of to_process whose future has not finished
    pendingR,         \* paths of to_remove whose future has not finished
    errs,             \* operations of this pass for which _process_file logged an error
    rmFailed,         \* paths of this pass whose os.remove raised
    files0,           \* history: the files when the pass under way (or the last one) started
    cache0,           \* history: the cache file when the pass under way (or the last one) started
    last,             \* history: how the last finished pass ended
    prev,             \* history: the pass before the last one
    quiet,            \* history: nothing outside the program changed since the last pass ended
    passes,           \* number of passes started
    edits,            \* number of changes made from outside the program
    faults            \* number of file operations the environment made fail

vars == <<db, files, dirs, cacheFile, method, pc, tag, current_metadata, to_process,
          to_remove, pendingP, pendingR, errs, rmFailed, files0, cache0, last, prev,
          quiet, passes, edits, faults>>

-----------------------------------------------------------------------------
(* Bounds of the model *)

MaxPasses == 2
MaxEdits == 1
MaxFaults == 1

-----------------------------------------------------------------------------
(* Characters and strings *)

UpperCase == <<"A","B","C","D","E","F","G","H","I","J","K","L","M",
               "N","O","P","Q","R","S","T","U","V","W","X","Y","Z">>
LowerCase == <<"a","b","c","d","e","f","g","h","i","j","k","l","m",
               "n","o","p","q","r","s","t","u","v","w","x","y","z">>
Digits == <<"0","1","2","3","4","5","6","7","8","9">>

Range(s) == { s[i] : i \in DOMAIN s }

\* str.isalnum() on one character
AlnumChars == Range(UpperCase) \cup Range(LowerCase) \cup Range(Digits)
IsAlnum(c) == c \in AlnumChars

\* str.lower()
LowerOf == [ u \in Range(UpperCase) |-> LowerCase[CHOOSE i \in DOMAIN UpperCase : UpperCase[i] = u] ]
LowerChar(c) == IF c \in DOMAIN LowerOf THEN LowerOf[c] ELSE c
LowerStr(s) == [ i \in DOMAIN s |-> LowerChar(s[i]) ]

\* str.endswith(suffix)
EndsWith(s, suffix) ==
    /\ Len(suffix) <= Len(s)
    /\ SubSeq(s, Len(s) - Len(suffix) + 1, Len(s)) = suffix

\* str.strip(): the only white space the models' strings hold is the blank
RECURSIVE LStrip(_)
LStrip(s) == IF s # <<>> /\ Head(s) = " " THEN LStrip(Tail(s)) ELSE s
RECURSIVE RStrip(_)
RStrip(s) == IF s # <<>> /\ s[Len(s)] = " " THEN RStrip(SubSeq(s, 1, Len(s) - 1)) ELSE s
Strip(s) == RStrip(LStrip(s))

\* str(n) for a natural number
RECURSIVE DecStr(_)
DecStr(n) == IF n < 10 THEN <<Digits[n + 1]>> ELSE DecStr(n \div 10) \o <<Digits[(n % 10) + 1]>>

\* the '0' flag with a minimum field width: pad on the left up to width characters
RECURSIVE ZeroPad(_, _)
ZeroPad(s, width) == IF Len(s) < width THEN ZeroPad(<<"0">> \o s, width) ELSE s

\* The strings the source spells out
S_cbr == <<"c","b","r">>
S_cbz == <<"c","b","z">>
S_NoSeries == <<"N","o"," ","S","e","r","i","e","s">>
S_dotgit == <<".","g","i","t">>
S_sep == <<" ","-"," ">>
\* a variant of the suffixes of the removal scan that has the two comic suffixes only
RecognizedSuffixes_ComicsOnly == { <<".","c","b","r">>, <<".","c","b","z">> }
RecognizedSuffixes == { <<".","c","b","r">>, <<".","c","b","z">>,
                        <<".","p","d","f">>, <<".","z","i","p">> }
AllowedFormats == { S_cbr, S_cbz }

-----------------------------------------------------------------------------
(* Path Deriver: _get_target_path *)

\* "".join(c for c in s if c.isalnum() or c in (' ', '-', '_')).strip()
KeepChar(c) == IsAlnum(c) \/ c \in {" ", "-", "_"}
Sanitize(s) == Strip(SelectSeq(s, KeepChar))

\* f"{x:02.1f}" for x given in tenths: one decimal, minimum field width 2, zero flag
IndexWidth == 2
FormatIndex(tenths) ==
    ZeroPad(DecStr(tenths \div 10) \o <<".">> \o <<Digits[(tenths % 10) + 1]>>, IndexWidth)

\* Python truth of an optional string, and of an optional number
TruthyStr(opt) == opt # <<>> /\ opt[1] # <<>>
\* a variant that tests the number for presence (`is not None`)
TruthyNum_NotNone(opt) == opt # <<>>
TruthyNum(opt) == opt # <<>> /\ opt[1] # 0

\* target_folder, as a path below the output root (os.path.join drops an empty last part)
TargetFolder(book_data) ==
    IF TruthyStr(book_data.series)
    THEN (IF Sanitize(book_data.series[1]) = <<>> THEN <<>> ELSE <<Sanitize(book_data.series[1])>>)
    ELSE <<S_NoSeries>>

CleanTitle(book_data) ==
    IF TruthyStr(book_data.series) /\ TruthyNum(book_data.series_index)
    THEN FormatIndex(book_data.series_index[1]) \o S_sep \o Sanitize(book_data.title)
    ELSE Sanitize(book_data.title)

GetTargetPath(book_data, format_type) ==
    TargetFolder(book_data) \o << CleanTitle(book_data) \o <<".">> \o format_type >>

-----------------------------------------------------------------------------
(* Catalog Reader: _get_metadata_from_db *)

\* an empty mapping (dict)
EmptyMap == [ k \in {} |-> {} ]

\* the data rows of a book that pass LOWER(data.format) = 'cbr' OR ... = 'cbz'
MatchingFormats(row) == { f \in row.formats : LowerStr(f) \in AllowedFormats }

\* result[book_id] as built from the rows of one book; every format of a book
\* carries books.last_modified (row[7])
BookData(row) ==
    [ title |-> row.title,
      series |-> row.series,
      series_index |-> row.series_index,
      formats |-> [ g \in { LowerStr(f) : f \in MatchingFormats(row) } |->
                        [ last_modified |-> row.last_modified ] ],
      metadata |-> [ author_sort |-> row.author_sort,
                     timestamp |-> row.timestamp,
                     pubdate |-> row.pubdate ] ]

\* the rows are those of books JOINed with the tag and with an allowed format
GetMetadataFromDb(catalog, t) ==
    LET ids == { i \in DOMAIN catalog :
                    t \in catalog[i].tags /\ MatchingFormats(catalog[i]) # {} }
    IN  [ i \in ids |-> BookData(catalog[i]) ]

-----------------------------------------------------------------------------
(* Change-Set Cache: _load_metadata_cache, _save_metadata_cache *)

\* What the cache file can hold:
\*   absent   no file
\*   garbage  text json.load rejects with JSONDecodeError
\*   scalar   valid JSON that is a number or null
\*   list     valid JSON that is an empty list
\*   doc      valid JSON that is an object; doc maps its keys to its values
Loaded(kind, doc) == [ kind |-> kind, doc |-> doc ]

\* a variant that never finds the cache file (it looks under another path)
LoadMetadataCache_NeverFound(cf) == Loaded("doc", EmptyMap)

\* json.load's result, or {} when the file is missing or is not JSON
LoadMetadataCache(cf) ==
    IF cf.kind \in {"absent", "garbage"} THEN Loaded("doc", EmptyMap) ELSE cf

\* {str(k): v for k, v in current_metadata.items()}, dumped
SnapshotDoc(cur) ==
    [ k \in { DecStr(i) : i \in DOMAIN cur } |->
        cur[CHOOSE i \in DOMAIN cur : DecStr(i) = k] ]
SaveMetadataCache(cur) == Loaded("doc", SnapshotDoc(cur))

-----------------------------------------------------------------------------
(* The output tree *)

\* os.path.exists follows symbolic links: a link whose source is missing does not exist
Exists(fs, p) == p \in DOMAIN fs /\ fs[p].kind # "dangling"
\* the directory entry is there (os.walk lists it, os.symlink refuses to replace it)
LExists(fs, p) == p \in DOMAIN fs

Without(fs, p) == [ q \in (DOMAIN fs) \ {p} |-> fs[q] ]
With(fs, p, e) == [ q \in (DOMAIN fs) \cup {p} |-> IF q = p THEN e ELSE fs[q] ]

Entry(kind, src) == [ kind |-> kind, src |-> src ]
Parent(p) == SubSeq(p, 1, Len(p) - 1)
Last(p) == p[Len(p)]

\* os.makedirs(target_folder, exist_ok=True)
MakeDirs(ds, folders) == ds \cup folders

\* file.lower().endswith(('.cbr', '.cbz', '.pdf', '.zip'))
Recognized(name) == \E suffix \in RecognizedSuffixes : EndsWith(LowerStr(name), suffix)

\* a variant of the scan that tests the suffix without lower-casing the name
ExistingFiles_CaseSensitive(fs) ==
    { p \in DOMAIN fs : \E suffix \in RecognizedSuffixes : EndsWith(Last(p), suffix) }

\* the recursive scan of os.walk(self.output_path)
ExistingFiles(fs) == { p \in DOMAIN fs : Recognized(Last(p)) }

-----------------------------------------------------------------------------
(* Reconciler: the planning part of sync_tag *)

Op(book_id, format_type, target_file) ==
    [ book_id |-> book_id, format_type |-> format_type, target_file |-> target_file ]

\* the pairs the two nested loops visit
Pairs(cur) == { pr \in (DOMAIN cur) \X AllowedFormats : pr[2] \in DOMAIN cur[pr[1]].formats }

\* the evaluation of the cache test raises: `in` on a number or null, or a cached
\* entry that has no 'formats'
LookupRaises(cached, book_id) ==
    \/ cached.kind = "scalar"
    \/ /\ cached.kind = "doc"
       /\ DecStr(book_id) \in DOMAIN cached.doc
       /\ "formats" \notin DOMAIN cached.doc[DecStr(book_id)]

\* a variant that trusts the cache and does not look at the output tree
NeedsUpdate_TrustsCache(cached, fs, book_id, book_data, format_type) ==
    ~ ( /\ cached.kind = "doc"
        /\ DecStr(book_id) \in DOMAIN cached.doc
        /\ LET cached_book == cached.doc[DecStr(book_id)]
           IN  /\ format_type \in DOMAIN cached_book.formats
               /\ cached_book.formats[format_type].last_modified
                      = book_data.formats[format_type].last_modified
               /\ cached_book.metadata = book_data.metadata )

NeedsUpdate(cached, fs, book_id, book_data, format_type) ==
    ~ ( /\ cached.kind = "doc"
        /\ DecStr(book_id) \in DOMAIN cached.doc
        /\ LET cached_book == cached.doc[DecStr(book_id)]
           IN  /\ format_type \in DOMAIN cached_book.formats
               /\ cached_book.formats[format_type].last_modified
                      = book_data.formats[format_type].last_modified
               /\ cached_book.metadata = book_data.metadata
               /\ Exists(fs, GetTargetPath(book_data, format_type)) )

ToProcess(cur, cached, fs) ==
    { Op(pr[1], pr[2], GetTargetPath(cur[pr[1]], pr[2])) :
        pr \in { q \in Pairs(cur) : NeedsUpdate(cached, fs, q[1], cur[q[1]], q[2]) } }

\* a variant that derives the names of the current files from the raw titles
CurrentFiles_RawTitle(cur) ==
    { TargetFolder(cur[pr[1]]) \o << cur[pr[1]].title \o <<".">> \o pr[2] >> : pr \in Pairs(cur) }

CurrentFiles(cur) == { GetTargetPath(cur[pr[1]], pr[2]) : pr \in Pairs(cur) }

\* a variant that forgets to subtract the files of the current catalog
ToRemove_Everything(cur, fs) == ExistingFiles(fs)

ToRemove(cur, fs) == ExistingFiles(fs) \ CurrentFiles(cur)

-----------------------------------------------------------------------------
(* Executor: _process_file and the pooled os.remove *)

\* One outcome of a file operation: the files after it, the error it logged or
\* raised ("" for none), and whether the environment made something fail.
Outcome(fs, err, fault) == [ files |-> fs, err |-> err, fault |-> fault ]

\* the strategy branch of _process_file, on the files left by the removal step
StrategyOutcomes(fs1, m, op) ==
    LET target == op.target_file
        src == <<op.book_id, op.format_type>>
    IN  IF m = "link"
        THEN IF LExists(fs1, target)
             THEN { Outcome(fs1, "create", FALSE) }                         \* FileExistsError
             ELSE { Outcome(With(fs1, target, Entry("link", src)), "", FALSE),
                    Outcome(With(fs1, target, Entry("dangling", src)), "", TRUE), \* source missing
                    Outcome(fs1, "create", TRUE) }
        ELSE IF m = "copy"
        THEN IF LExists(fs1, target)
             THEN \* shutil.copy writes through a link whose source is missing, unless
                  \* that source is the file to copy, which is then missing too
                  IF fs1[target].src = src
                  THEN { Outcome(fs1, "create", FALSE) }
                  ELSE { Outcome(With(fs1, target, Entry("link", fs1[target].src)), "", FALSE),
                         Outcome(fs1, "create", TRUE) }
             ELSE { Outcome(With(fs1, target, Entry("file", src)), "", FALSE),
                    Outcome(fs1, "create", TRUE) }                          \* source missing, no space
        ELSE { Outcome(fs1, "method", FALSE) }                              \* logged, nothing made

\* _process_file: remove the target if it exists, then apply the strategy; every
\* exception is caught and logged
ProcessFile(fs, m, op) ==
    LET target == op.target_file
    IN  IF Exists(fs, target)
        THEN { Outcome(fs, "remove", TRUE) } \cup StrategyOutcomes(Without(fs, target), m, op)
        ELSE StrategyOutcomes(fs, m, op)

\* os.remove(file_path) in the pool: it deletes the entry or raises
RemoveFile(fs, p) ==
    { Outcome(Without(fs, p), "", FALSE), Outcome(fs, "remove", TRUE) }

-----------------------------------------------------------------------------
(* Tree Sweeper: the bottom-up walk at the end of sync_tag *)

\* the bottom-up walk reaches a directory after all the directories below it, so a
\* directory is deleted when it holds no file, its path does not end in '.git', and
\* every directory in it has been deleted
\* a variant that walks top-down: it looks at a directory before the directories
\* below it, so a directory that holds a directory is never deleted
Deleted_TopDown(d, ds, fs) ==
    /\ ~ EndsWith(Last(d), S_dotgit)
    /\ \A p \in DOMAIN fs : Parent(p) # d
    /\ \A c \in ds \ {<<>>} : Parent(c) # d

RECURSIVE Deleted(_, _, _)
Deleted(d, ds, fs) ==
    /\ ~ EndsWith(Last(d), S_dotgit)
    /\ \A p \in DOMAIN fs : Parent(p) # d
    /\ \A c \in ds \ {<<>>} : Parent(c) = d => Deleted(c, ds, fs)

\* the walk offers the names listed in each directory it visits, so the root, which
\* is listed nowhere, is never a candidate
Sweep(ds, fs) == { d \in ds : d = <<>> \/ ~ Deleted(d, ds, fs) }

-----------------------------------------------------------------------------
(* The values the catalog and the tree are drawn from *)

T_A == <<"A">>
T_B == <<"B">>
T_Aq == <<"A","?">>
T_Batman == <<"B","a","t","m","a","n">>
S_DC == <<"D","e","t","e","c","t","i","v","e"," ","C","o","m","i","c","s">>
F_CBZ == <<"C","B","Z">>
F_EPUB == <<"E","P","U","B">>

Tags == { "TA", "TB" }
Methods == { "link", "copy", "move" }
Titles == { T_A, T_B, T_Aq }
SeriesValues == { <<>>, <<S_DC>> }
IndexValues == { <<>>, <<0>>, <<30>>, <<105>> }
FormatValues == { F_CBZ, S_cbr, F_EPUB }

Row(title, series, series_index, tags, formats) ==
    [ title |-> title, series |-> series, series_index |-> series_index,
      last_modified |-> 1, author_sort |-> 1, timestamp |-> 1, pubdate |-> 1,
      tags |-> tags, formats |-> formats ]

\* two books without a series in the same tag; and a book of a series beside a
\* book of another tag that has two comic formats and one other format
CatalogFlat ==
    ( 1 :> Row(T_A, <<>>, <<10>>, {"TA"}, {F_CBZ}) ) @@
    ( 2 :> Row(T_B, <<>>, <<10>>, {"TA", "TB"}, {F_CBZ}) )
CatalogSeries ==
    ( 1 :> Row(T_Batman, <<S_DC>>, <<30>>, {"TA"}, {F_CBZ}) ) @@
    ( 2 :> Row(T_A, <<>>, <<10>>, {"TB"}, {F_CBZ, S_cbr, F_EPUB}) )
BaseCatalogs == { CatalogFlat, CatalogSeries }

\* what the output tree holds before the first pass: a document left by something
\* else, beside a directory that holds nothing but a comic with an upper-case
\* extension; a comic of unknown content left by an earlier installation; and an
\* empty version-control directory
P_oldDir == << <<"o","l","d">> >>
P_oldIn == P_oldDir \o << <<"i","n">> >>
P_oldFile == P_oldDir \o << <<"x",".","P","D","F">> >>
P_staleFile == << S_NoSeries, T_A \o <<".">> \o S_cbz >>
P_upperFile == P_oldIn \o << <<"y",".","C","B","Z">> >>
P_git == << S_dotgit >>
InitialDirs == { <<>>, P_oldDir, P_oldIn, <<S_NoSeries>>, P_git }
InitialFiles ==
    ( P_oldFile :> Entry("file", <<>>) ) @@ ( P_staleFile :> Entry("file", <<>>) ) @@
    ( P_upperFile :> Entry("file", <<>>) )

NoPass ==
    [ status |-> "none", cause |-> "", tag |-> "", snapshot |-> EmptyMap,
      to_process |-> {}, to_remove |-> {}, errs |-> {}, rmFailed |-> {},
      quietStart |-> FALSE ]

Init ==
    /\ db \in BaseCatalogs
    /\ files = InitialFiles
    /\ dirs = InitialDirs
    /\ cacheFile = Loaded("absent", EmptyMap)
    /\ method \in Methods
    /\ pc = "idle"
    /\ tag = ""
    /\ current_metadata = EmptyMap
    /\ to_process = {}
    /\ to_remove = {}
    /\ pendingP = {}
    /\ pendingR = {}
    /\ errs = {}
    /\ rmFailed = {}
    /\ files0 = InitialFiles
    /\ cache0 = Loaded("absent", EmptyMap)
    /\ last = NoPass
    /\ prev = NoPass
    /\ quiet = FALSE
    /\ passes = 0
    /\ edits = 0
    /\ faults = 0

-----------------------------------------------------------------------------
(* sync_tag *)

\* how the pass under way ends
Summary(status, cause, failedRemovals) ==
    [ status |-> status, cause |-> cause, tag |-> tag, snapshot |-> current_metadata,
      to_process |-> to_process, to_remove |-> to_remove, errs |-> errs,
      rmFailed |-> failedRemovals, quietStart |-> quiet ]

\* a variant that does not wait for the materialisations before it submits the
\* removals
AfterBarrier_NoWait(pP, pR, failedRemovals) ==
    IF pR # {} THEN "remove"
    ELSE IF pP # {} THEN "process"
    ELSE IF failedRemovals # {} THEN "raise"
    ELSE "save"

\* where the coordinator goes once the futures it waits for have finished
AfterBarrier(pP, pR, failedRemovals) ==
    IF pP # {} THEN "process"
    ELSE IF pR # {} THEN "remove"
    ELSE IF failedRemovals # {} THEN "raise"
    ELSE "save"

\* line 140 when the catalog cannot be opened or read: sqlite3.connect or
\* cursor.execute raises, and sync_tag is left before it has done anything
StartPassUnavailable(t) ==
    /\ pc = "idle"
    /\ passes < MaxPasses
    /\ faults < MaxFaults
    /\ tag' = t
    /\ current_metadata' = EmptyMap
    /\ to_process' = {}
    /\ to_remove' = {}
    /\ pendingP' = {}
    /\ pendingR' = {}
    /\ errs' = {}
    /\ rmFailed' = {}
    /\ files0' = files
    /\ cache0' = cacheFile
    /\ prev' = last
    /\ last' = [ NoPass EXCEPT !.status = "raised", !.cause = "store", !.tag = t,
                                !.quietStart = quiet ]
    /\ quiet' = TRUE
    /\ passes' = passes + 1
    /\ faults' = faults + 1
    /\ UNCHANGED <<db, files, dirs, cacheFile, method, pc, edits>>

\* lines 136-177 when the cache test raises at book c: the folders of the books
\* visited up to c have been made, nothing else has happened
StartPassRaises(t) ==
    /\ pc = "idle"
    /\ passes < MaxPasses
    /\ LET cur == GetMetadataFromDb(db, t)
           cached == LoadMetadataCache(cacheFile)
       IN  \E c \in DOMAIN cur : \E visited \in SUBSET (DOMAIN cur) :
             /\ c \in visited
             /\ LookupRaises(cached, c)
             /\ \A i \in visited \ {c} : ~ LookupRaises(cached, i)
             /\ dirs' = MakeDirs(dirs, { TargetFolder(cur[i]) : i \in visited })
             /\ tag' = t
             /\ current_metadata' = cur
             /\ prev' = last
             /\ last' = [ Summary("raised", "plan", {}) EXCEPT
                            !.tag = t, !.snapshot = cur, !.to_process = {},
                            !.to_remove = {}, !.errs = {} ]
    /\ to_process' = {}
    /\ to_remove' = {}
    /\ pendingP' = {}
    /\ pendingR' = {}
    /\ errs' = {}
    /\ rmFailed' = {}
    /\ files0' = files
    /\ cache0' = cacheFile
    /\ quiet' = TRUE
    /\ passes' = passes + 1
    /\ UNCHANGED <<db, files, cacheFile, method, pc, edits, faults>>

\* lines 136-177: read the catalog, load the cache, plan the two sets
StartPass(t) ==
    /\ pc = "idle"
    /\ passes < MaxPasses
    /\ LET cur == GetMetadataFromDb(db, t)
           cached == LoadMetadataCache(cacheFile)
           plan == ToProcess(cur, cached, files)
           gone == ToRemove(cur, files)
       IN  /\ \A c \in DOMAIN cur : ~ LookupRaises(cached, c)
           /\ tag' = t
           /\ current_metadata' = cur
           /\ dirs' = MakeDirs(dirs, { TargetFolder(cur[i]) : i \in DOMAIN cur })
           /\ to_process' = plan
           /\ to_remove' = gone
           /\ pendingP' = plan
           /\ pendingR' = gone
           /\ pc' = AfterBarrier(plan, gone, {})
    /\ errs' = {}
    /\ rmFailed' = {}
    /\ files0' = files
    /\ cache0' = cacheFile
    /\ passes' = passes + 1
    /\ UNCHANGED <<db, files, cacheFile, method, last, prev, quiet, edits, faults>>

\* lines 182-188: one submitted _process_file runs to its end
Process(op) ==
    /\ pc = "process"
    /\ op \in pendingP
    /\ \E o \in ProcessFile(files, method, op) :
         /\ o.fault => faults < MaxFaults
         /\ files' = o.files
         /\ errs' = IF o.err = "" THEN errs ELSE errs \cup { [ op |-> op, why |-> o.err ] }
         /\ faults' = IF o.fault THEN faults + 1 ELSE faults
    /\ pendingP' = pendingP \ {op}
    /\ pc' = AfterBarrier(pendingP', pendingR, {})
    /\ UNCHANGED <<db, dirs, cacheFile, method, tag, current_metadata, to_process,
                   to_remove, pendingR, rmFailed, files0, cache0, last, prev, quiet, passes, edits>>

\* lines 191-198: one submitted os.remove runs to its end
Remove(p) ==
    /\ pc = "remove"
    /\ p \in pendingR
    /\ \E o \in RemoveFile(files, p) :
         /\ o.fault => faults < MaxFaults
         /\ files' = o.files
         /\ rmFailed' = IF o.err = "" THEN rmFailed ELSE rmFailed \cup {p}
         /\ faults' = IF o.fault THEN faults + 1 ELSE faults
    /\ pendingR' = pendingR \ {p}
    /\ pc' = AfterBarrier({}, pendingR', rmFailed')
    /\ UNCHANGED <<db, dirs, cacheFile, method, tag, current_metadata, to_process,
                   to_remove, pendingP, errs, files0, cache0, last, prev, quiet, passes, edits>>

\* a variant that saves the cache on the way out, as a `finally` clause would
Raise_SavesCache ==
    /\ pc = "raise"
    /\ pc' = "idle"
    /\ cacheFile' = SaveMetadataCache(current_metadata)
    /\ prev' = last
    /\ last' = Summary("raised", "remove", rmFailed)
    /\ quiet' = TRUE
    /\ UNCHANGED <<db, files, dirs, method, tag, current_metadata, to_process,
                   to_remove, pendingP, pendingR, errs, rmFailed, files0, cache0, passes,
                   edits, faults>>

\* line 198: future.result() re-raises the exception of a failed os.remove, and
\* sync_tag is left without the cache save and the sweep
Raise ==
    /\ pc = "raise"
    /\ pc' = "idle"
    /\ prev' = last
    /\ last' = Summary("raised", "remove", rmFailed)
    /\ quiet' = TRUE
    /\ UNCHANGED <<db, files, dirs, cacheFile, method, tag, current_metadata, to_process,
                   to_remove, pendingP, pendingR, errs, rmFailed, files0, cache0, passes, edits,
                   faults>>

\* a variant that merges the snapshot into the document it loaded
SaveCache_Merges ==
    /\ pc = "save"
    /\ LET old == LoadMetadataCache(cacheFile).doc
           new == SnapshotDoc(current_metadata)
       IN  cacheFile' = Loaded("doc", [ k \in (DOMAIN old) \cup (DOMAIN new) |->
                                          IF k \in DOMAIN new THEN new[k] ELSE old[k] ])
    /\ pc' = "sweep"
    /\ UNCHANGED <<db, files, dirs, method, tag, current_metadata, to_process, to_remove,
                   pendingP, pendingR, errs, rmFailed, files0, cache0, last, prev, quiet,
                   passes, edits, faults>>

\* line 201
SaveCache ==
    /\ pc = "save"
    /\ cacheFile' = SaveMetadataCache(current_metadata)
    /\ pc' = "sweep"
    /\ UNCHANGED <<db, files, dirs, method, tag, current_metadata, to_process, to_remove,
                   pendingP, pendingR, errs, rmFailed, files0, cache0, last, prev, quiet, passes,
                   edits, faults>>

\* lines 204-211
SweepTree ==
    /\ pc = "sweep"
    /\ dirs' = Sweep(dirs, files)
    /\ pc' = "idle"
    /\ prev' = last
    /\ last' = Summary("done", "", {})
    /\ quiet' = TRUE
    /\ UNCHANGED <<db, files, cacheFile, method, tag, current_metadata, to_process,
                   to_remove, pendingP, pendingR, errs, rmFailed, files0, cache0, passes, edits,
                   faults>>

-----------------------------------------------------------------------------
(* What happens outside the program, between two passes *)

Outside ==
    /\ pc = "idle"
    /\ edits < MaxEdits
    /\ passes < MaxPasses
    /\ edits' = edits + 1
    /\ quiet' = FALSE
    /\ UNCHANGED <<method, pc, tag, current_metadata, to_process, to_remove, pendingP,
                   pendingR, errs, rmFailed, files0, cache0, last, prev, passes, faults>>

\* books are renamed
Retitle(f) ==
    /\ Outside
    /\ \E i \in DOMAIN db : f[i] # db[i].title
    /\ db' = [ i \in DOMAIN db |-> [ db[i] EXCEPT !.title = f[i] ] ]
    /\ UNCHANGED <<files, dirs, cacheFile>>

\* a book is put in a series, taken out of it, or moved inside it
SetSeries(i, s, x) ==
    /\ Outside
    /\ <<s, x>> # <<db[i].series, db[i].series_index>>
    /\ db' = [ db EXCEPT ![i].series = s, ![i].series_index = x ]
    /\ UNCHANGED <<files, dirs, cacheFile>>

\* books.last_modified changes
Touch(i) ==
    /\ Outside
    /\ db' = [ db EXCEPT ![i].last_modified = @ + 1 ]
    /\ UNCHANGED <<files, dirs, cacheFile>>

\* one of the compared metadata columns changes
SetPubdate(i) ==
    /\ Outside
    /\ db' = [ db EXCEPT ![i].pubdate = @ + 1 ]
    /\ UNCHANGED <<files, dirs, cacheFile>>

\* the tags of a book change
SetTags(i, ts) ==
    /\ Outside
    /\ ts # db[i].tags
    /\ db' = [ db EXCEPT ![i].tags = ts ]
    /\ UNCHANGED <<files, dirs, cacheFile>>

\* a format of a book is added or deleted
ToggleFormat(i, f) ==
    /\ Outside
    /\ db' = [ db EXCEPT ![i].formats = IF f \in @ THEN @ \ {f} ELSE @ \cup {f} ]
    /\ UNCHANGED <<files, dirs, cacheFile>>

\* a book is deleted from the catalog
DeleteBook(i) ==
    /\ Outside
    /\ db' = [ j \in (DOMAIN db) \ {i} |-> db[j] ]
    /\ UNCHANGED <<files, dirs, cacheFile>>

\* a file of the output tree is deleted by someone else
DeleteFile(p) ==
    /\ Outside
    /\ files' = Without(files, p)
    /\ UNCHANGED <<db, dirs, cacheFile>>

\* the cache file is overwritten: with text that is not JSON, with a JSON number,
\* with an empty JSON list, or with a JSON object whose entries are empty objects
MalformedDoc == [ k \in { DecStr(i) : i \in DOMAIN db } |-> EmptyMap ]
CorruptCache(kind) ==
    /\ Outside
    /\ cacheFile' = Loaded(kind, IF kind = "doc" THEN MalformedDoc ELSE EmptyMap)
    /\ UNCHANGED <<db, files, dirs>>

Next ==
    \/ \E t \in Tags : StartPass(t)
    \/ \E t \in Tags : StartPassRaises(t)
    \/ \E t \in Tags : StartPassUnavailable(t)
    \/ \E op \in pendingP : Process(op)
    \/ \E p \in pendingR : Remove(p)
    \/ Raise
    \/ SaveCache
    \/ SweepTree
    \/ \E f \in [ DOMAIN db -> Titles ] : Retitle(f)
    \/ \E i \in DOMAIN db : \E s \in SeriesValues : \E x \in IndexValues : SetSeries(i, s, x)
    \/ \E i \in DOMAIN db : Touch(i)
    \/ \E i \in DOMAIN db : SetPubdate(i)
    \/ \E i \in DOMAIN db : \E ts \in SUBSET Tags : SetTags(i, ts)
    \/ \E i \in DOMAIN db : \E f \in FormatValues : ToggleFormat(i, f)
    \/ \E i \in DOMAIN db : DeleteBook(i)
    \/ \E p \in DOMAIN files : DeleteFile(p)
    \/ \E kind \in { "garbage", "scalar", "list", "doc" } : CorruptCache(kind)

Spec == Init /\ [][Next]_vars

-----------------------------------------------------------------------------
(* Properties *)

\* the (item, format) pairs of a snapshot with their target paths
TargetOf(snapshot, pr) == GetTargetPath(snapshot[pr[1]], pr[2])
\* the catalog as the last pass's tag selects it now
Selected == GetMetadataFromDb(db, last.tag)
\* a second pass of the same tag is under way, started right after a completed one
SecondInSuccession ==
    /\ pc # "idle"
    /\ last.status = "done"
    /\ last.tag = tag
    /\ quiet
\* the last pass ran to its end and nothing has changed since
JustCompleted ==
    /\ pc = "idle"
    /\ last.status = "done"
    /\ quiet
ValidMethod == method \in { "copy", "link" }

C2_FailuresNeverPropagate ==
    /\ pc # "raise"
    /\ ~ (last.status = "raised" /\ last.cause = "remove")

\* C3: after a pass that ran to its end with no operation failing, every
\* (item, format) that matches the tag has an entry at its target path.
C3_Completeness ==
    ( JustCompleted /\ last.errs = {} )
    => \A pr \in Pairs(Selected) : LExists(files, TargetOf(Selected, pr))

\* such a pass has ended, having materialised something and removed something
C3_Witness ==
    /\ JustCompleted
    /\ last.errs = {}
    /\ last.to_process # {}
    /\ last.to_remove # {}
    /\ Cardinality(Pairs(Selected)) >= 2
    /\ \A pr \in Pairs(Selected) : LExists(files, TargetOf(Selected, pr))

\* C4: after a pass that ran to its end, every file below the output root whose
\* lower-cased name ends in .cbr, .cbz, .pdf or .zip is at the target path of some
\* (item, format) that matches the tag.
C4_NoOrphans ==
    JustCompleted
    => \A p \in DOMAIN files :
         (\E suffix \in RecognizedSuffixes : EndsWith(LowerStr(Last(p)), suffix))
         => \E pr \in Pairs(Selected) : p = TargetOf(Selected, pr)

\* a pass has ended that removed a file with an upper-case extension from a
\* subdirectory and kept the files of the catalog
C4_Witness ==
    /\ JustCompleted
    /\ P_oldFile \in last.to_remove
    /\ P_oldFile \notin DOMAIN files
    /\ DOMAIN files # {}

\* C5 as claimed: an (item, format) whose materialisation failed in a pass is in
\* to_process in the next pass when nothing changed in between.
C5_FailedItemRetried ==
    SecondInSuccession
    => \A e \in last.errs :
         \E op \in to_process :
            op.book_id = e.op.book_id /\ op.format_type = e.op.format_type

\* C6 as claimed: the pass of one tag, run right after the pass of another tag,
\* removes no file of the items of the first tag and leaves each at its target path.
C6_TagsIndependent ==
    ( /\ JustCompleted
      /\ prev.status = "done"
      /\ last.quietStart
      /\ prev.tag # last.tag
      /\ prev.errs = {}
      /\ last.errs = {} )
    => /\ last.to_remove \cap CurrentFiles(prev.snapshot) = {}
       /\ \A pr \in Pairs(prev.snapshot) : LExists(files, TargetOf(prev.snapshot, pr))

\* C7 as claimed: when the target path of an item changed between two passes of a
\* tag, then after the second pass the file at the new path was made from the item's
\* own source file, and the old path holds no file unless it is now the target path
\* of an item.
C7_RenameFollowed ==
    ( /\ JustCompleted
      /\ prev.status = "done"
      /\ prev.tag = last.tag
      /\ prev.errs = {}
      /\ last.errs = {}
      /\ faults = 0
      /\ ValidMethod )
    => \A pr \in Pairs(prev.snapshot) \cap Pairs(last.snapshot) :
         LET old == TargetOf(prev.snapshot, pr)
             new == TargetOf(last.snapshot, pr)
         IN  ( /\ old # new
               /\ \A q \in Pairs(last.snapshot) : TargetOf(last.snapshot, q) = new => q = pr )
             => /\ LExists(files, new)
                /\ files[new].src = pr
                /\ LExists(files, old) => old \in CurrentFiles(last.snapshot)

\* C8 as claimed: with a strategy that is neither 'copy' nor 'link', a file that was
\* at the target path of a processed operation when the pass started is still there,
\* unmodified.
C8_InvalidMethodNoOp ==
    ( pc # "idle" /\ ~ ValidMethod /\ faults = 0 )
    => \A op \in to_process \ pendingP :
         LExists(files0, op.target_file)
         => LExists(files, op.target_file) /\ files[op.target_file] = files0[op.target_file]

\* C9 as claimed: for an item with a series and a series index, the target path is
\* <sanitized series>/<II.D> - <sanitized title>.<format>, the index printed with two
\* integer digits, zero-padded, and one decimal; Batman, Detective Comics, 3.0, cbz
\* gives Detective Comics/03.0 - Batman.cbz.
TwoDigitIndex(tenths) ==
    ZeroPad(DecStr(tenths \div 10), 2) \o <<".">> \o <<Digits[(tenths % 10) + 1]>>
C9_PathFormat ==
    \A op \in to_process :
       LET b == current_metadata[op.book_id]
       IN  ( TruthyStr(b.series) /\ TruthyNum(b.series_index) )
           => op.target_file =
                << Sanitize(b.series[1]),
                   TwoDigitIndex(b.series_index[1]) \o S_sep \o Sanitize(b.title)
                      \o <<".">> \o op.format_type >>

\* C10 as claimed: when the cache file holds anything but a well-formed cache
\* document, the pass does not raise and puts every (item, format) in to_process.
WellFormed(cf) ==
    /\ cf.kind = "doc"
    /\ \A k \in DOMAIN cf.doc : "formats" \in DOMAIN cf.doc[k]
C10_CacheResilience ==
    /\ ~ (last.status = "raised" /\ last.cause = "plan")
    /\ ( pc \in { "process", "remove", "raise" } /\ cacheFile.kind # "absent"
         /\ ~ WellFormed(cacheFile) )
       => { <<op.book_id, op.format_type>> : op \in to_process } = Pairs(current_metadata)

\* a pass is under way that follows a completed pass of the same tag in which no
\* operation failed and which left a file at every target path and its snapshot in
\* the cache
AfterSuccessfulPass ==
    /\ pc # "idle"
    /\ last.status = "done"
    /\ last.tag = tag
    /\ last.errs = {}
    /\ \A pr \in Pairs(last.snapshot) : Exists(files0, TargetOf(last.snapshot, pr))
    /\ cache0.kind = "doc"
    /\ DOMAIN cache0.doc = { DecStr(j) : j \in DOMAIN last.snapshot }
    /\ \A j \in DOMAIN last.snapshot : cache0.doc[DecStr(j)] = last.snapshot[j]

\* what the pass under way read differs from what the last pass read in the
\* last-modified values of item i and in nothing else
OnlyLastModifiedChanged(i) ==
    /\ DOMAIN current_metadata = DOMAIN last.snapshot
    /\ i \in DOMAIN current_metadata
    /\ \A j \in (DOMAIN current_metadata) \ {i} : current_metadata[j] = last.snapshot[j]
    /\ current_metadata[i] # last.snapshot[i]
    /\ DOMAIN current_metadata[i].formats = DOMAIN last.snapshot[i].formats
    /\ [ current_metadata[i] EXCEPT !.formats = last.snapshot[i].formats ] = last.snapshot[i]

\* C11 as claimed: when, after a successful pass, a last-modified value of one item
\* changed in the catalog and nothing else did, the next pass materialises exactly
\* one (item, format), of that item, and removes nothing.
C11_OneFormatRematerialized ==
    \A i \in DOMAIN current_metadata :
       ( AfterSuccessfulPass /\ OnlyLastModifiedChanged(i) )
       => /\ Cardinality(to_process) = 1
          /\ \A op \in to_process : op.book_id = i
          /\ to_remove = {}

\* the last pass was aborted by an exception and nothing has changed since
JustAborted ==
    /\ pc = "idle"
    /\ last.status = "raised"
    /\ quiet

\* C12: a pass that has not reached the cache save, and a pass that was aborted
\* (the catalog could not be read, the cache test raised, a removal raised), leave
\* the cache file exactly as it was when the pass started.
C12_FailedPassKeepsCache ==
    /\ pc \in { "process", "remove", "raise", "save" } => cacheFile = cache0
    /\ JustAborted => cacheFile = cache0

\* a pass that followed a completed pass and read another snapshot was aborted by a
\* failed removal, and the cache still holds the snapshot of the completed pass
C12_Witness ==
    /\ JustAborted
    /\ last.cause = "remove"
    /\ prev.status = "done"
    /\ last.snapshot # prev.snapshot
    /\ cacheFile = cache0
    /\ cacheFile.kind = "doc"
    /\ DOMAIN cacheFile.doc = { DecStr(j) : j \in DOMAIN prev.snapshot }
    /\ \A j \in DOMAIN prev.snapshot : cacheFile.doc[DecStr(j)] = prev.snapshot[j]

\* C13: after a pass that ran to its end, every directory below the output root
\* holds a file or a directory, or has a path that ends in '.git'; the output root
\* is still there; and no directory whose path ends in '.git' has ever been deleted.
C13_NoEmptyDirectories ==
    /\ JustCompleted
       => \A d \in dirs \ {<<>>} :
             \/ \E p \in DOMAIN files : SubSeq(p, 1, Len(p) - 1) = d
             \/ \E c \in dirs \ {<<>>} : SubSeq(c, 1, Len(c) - 1) = d
             \/ EndsWith(d[Len(d)], S_dotgit)
    /\ <<>> \in dirs
    /\ \A d \in InitialDirs \ {<<>>} : EndsWith(d[Len(d)], S_dotgit) => d \in dirs

\* a pass has ended that removed the only file of an item taken out of the catalog
\* and deleted its directory, after a directory left with nothing but an emptied
\* directory had been deleted, and the empty '.git' directory is still there
C13_Witness ==
    /\ JustCompleted
    /\ prev.status = "done"
    /\ \E pr \in Pairs(prev.snapshot) :
          /\ pr[1] \notin DOMAIN db
          /\ TargetOf(prev.snapshot, pr) \in last.to_remove
          /\ Len(TargetOf(prev.snapshot, pr)) = 2
          /\ Parent(TargetOf(prev.snapshot, pr)) \notin dirs
    /\ P_oldDir \notin dirs
    /\ P_oldIn \notin dirs
    /\ P_git \in dirs
    /\ \A p \in DOMAIN files : Parent(p) # P_git

\* the pass under way has planned its two sets
Planned == pc \in { "process", "remove", "raise", "save", "sweep" }
\* the object the pass under way got from the cache file: what is no JSON object has
\* no keys
LoadedDoc == IF cache0.kind = "doc" THEN cache0.doc ELSE EmptyMap
\* the cache file the pass started with agrees with the catalog on a pair
CacheMatches(book_id, format_type) ==
    /\ DecStr(book_id) \in DOMAIN LoadedDoc
    /\ format_type \in DOMAIN LoadedDoc[DecStr(book_id)].formats
    /\ LoadedDoc[DecStr(book_id)].formats[format_type].last_modified
          = current_metadata[book_id].formats[format_type].last_modified
    /\ LoadedDoc[DecStr(book_id)].metadata = current_metadata[book_id].metadata

\* C14: the (item, format) pairs of to_process are exactly the pairs of the current
\* catalog for which the item id, as a string, is not a key of the loaded cache, or
\* the format is not among the cached item's formats, or the cached last_modified of
\* the format differs from the current one, or the cached metadata differs from the
\* current one, or no file existed at the target path when the pass started.
C14_ReconcilerDecision ==
    Planned =>
      { <<op.book_id, op.format_type>> : op \in to_process } =
      { pr \in Pairs(current_metadata) :
          \/ DecStr(pr[1]) \notin DOMAIN LoadedDoc
          \/ pr[2] \notin DOMAIN LoadedDoc[DecStr(pr[1])].formats
          \/ LoadedDoc[DecStr(pr[1])].formats[pr[2]].last_modified
                # current_metadata[pr[1]].formats[pr[2]].last_modified
          \/ LoadedDoc[DecStr(pr[1])].metadata # current_metadata[pr[1]].metadata
          \/ TargetOf(current_metadata, pr) \notin DOMAIN files0
          \/ files0[TargetOf(current_metadata, pr)].kind = "dangling" }

\* a pair whose cache entry matches the catalog, and whose file was gone when the
\* pass started although the pass before had made it, has been materialised again,
\* while another pair of the catalog was left alone
C14_Witness ==
    /\ Planned
    /\ last.status = "done"
    /\ last.errs = {}
    /\ \E op \in to_process \ pendingP :
          /\ CacheMatches(op.book_id, op.format_type)
          /\ op.target_file \notin DOMAIN files0
          /\ op.target_file \in DOMAIN files
    /\ \E pr \in Pairs(current_metadata) :
          \A op \in to_process : <<op.book_id, op.format_type>> # pr

\* C15 as claimed: no two operations handed to the pool in the materialisation phase
\* of a pass have the same target path, and no two in the removal phase remove the
\* same path (to_remove is a set of paths, so the second part holds by its type).
C15_DisjointTargets ==
    Planned =>
      \A op1 \in to_process : \A op2 \in to_process :
         op1.target_file = op2.target_file => op1 = op2

\* the target paths of the snapshot the pass under way read
TargetsNow == { TargetOf(current_metadata, pr) : pr \in Pairs(current_metadata) }

\* C16: in a pass, every target path of to_process is the target path of an
\* (item, format) of the current catalog, to_remove holds no such path, so no path is
\* in both sets; and a step of the removal phase deletes nothing but a path of
\* to_remove, never a target path.
C16_PhasesDisjoint ==
    /\ [] ( Planned =>
              /\ \A op \in to_process : op.target_file \in TargetsNow
              /\ to_remove \cap TargetsNow = {}
              /\ \A op \in to_process : op.target_file \notin to_remove )
    /\ [] [ pc = "remove" =>
              \A p \in (DOMAIN files) \ (DOMAIN files') :
                 p \in to_remove /\ p \notin TargetsNow ]_vars

\* both phases of a pass have run: a file that was in the tree when the pass started
\* was replaced by the materialisation phase and is still there, and the removal phase
\* has deleted another file
C16_Witness ==
    /\ pc = "save"
    /\ \E op \in to_process :
          /\ op.target_file \in DOMAIN files0
          /\ op.target_file \in DOMAIN files
          /\ files[op.target_file] # files0[op.target_file]
    /\ \E p \in to_remove : p \in DOMAIN files0 /\ p \notin DOMAIN files

\* the cache file holds the snapshot of the pass under way
HoldsSnapshot ==
    /\ cacheFile.kind = "doc"
    /\ DOMAIN cacheFile.doc = { DecStr(i) : i \in DOMAIN current_metadata }
    /\ \A i \in DOMAIN current_metadata : cacheFile.doc[DecStr(i)] = current_metadata[i]

\* C17: in a pass, as long as no operation has finished the files are those the
\* plan was made from, with the cache loaded; a removal runs only when every
\* materialisation has finished; the cache is saved, and the sweep runs, only when
\* every materialisation and every removal has finished; the sweep runs with the
\* cache already saved; the cache file is written by the save step alone, once, and
\* directories are deleted by the sweep step alone.
C17_PhaseOrdering ==
    /\ [] ( /\ ( pc \in { "process", "remove" } /\ pendingP = to_process
                 /\ pendingR = to_remove ) => files = files0 /\ cacheFile = cache0
            /\ ( pc = "remove" \/ pendingR # to_remove ) => pendingP = {}
            /\ pc \in { "raise", "save", "sweep" } => pendingP = {} /\ pendingR = {}
            /\ pc = "save" => cacheFile = cache0
            /\ pc = "sweep" => HoldsSnapshot )
    /\ [] [ /\ ( pc # "idle" /\ pc # "save" ) => cacheFile' = cacheFile
            /\ pc = "save" => pc' = "sweep"
            /\ pc # "sweep" => dirs \subseteq dirs' ]_vars

\* a pass that had two materialisations and a removal to do has saved a cache
\* different from the one it loaded and is about to sweep
C17_Witness ==
    /\ pc = "sweep"
    /\ Cardinality(to_process) >= 2
    /\ to_remove # {}
    /\ pendingP = {}
    /\ pendingR = {}
    /\ cacheFile # cache0
    /\ HoldsSnapshot

\* C18: once a pass has saved the cache, and until something outside changes it, the
\* cache file is a JSON object whose keys are exactly the item ids of the snapshot
\* the pass read, written as strings, each with the item's snapshot entry: the items
\* whose materialisation failed are among them, and no key of the cache the pass
\* loaded is kept for an item that is not in the snapshot.
C18_WholeSnapshot ==
    ( pc = "sweep" \/ JustCompleted )
    => /\ cacheFile.kind = "doc"
       /\ \A i \in DOMAIN current_metadata :
             /\ DecStr(i) \in DOMAIN cacheFile.doc
             /\ cacheFile.doc[DecStr(i)] = current_metadata[i]
       /\ \A k \in DOMAIN cacheFile.doc : \E i \in DOMAIN current_metadata : k = DecStr(i)
       /\ \A e \in errs : DecStr(e.op.book_id) \in DOMAIN cacheFile.doc

\* a pass in which a materialisation failed has ended, and the cache it loaded had
\* an entry for an item that is not in its snapshot
C18_Witness ==
    /\ JustCompleted
    /\ last.errs # {}
    /\ cache0.kind = "doc"
    /\ \E k \in DOMAIN cache0.doc : k \notin DOMAIN cacheFile.doc
    /\ \E e \in last.errs : DecStr(e.op.book_id) \in DOMAIN cacheFile.doc
    /\ current_metadata = Selected

\* the item has a series (a series name that is not empty)
HasSeries(b) == b.series # <<>> /\ b.series[1] # <<>>
\* the item has a series index, and it is not zero
HasNonZeroIndex(b) == b.series_index # <<>> /\ b.series_index[1] # 0
\* the sanitised title with the format as extension
BareName(b, format_type) == Sanitize(b.title) \o <<".">> \o format_type

\* C19: for every (item, format) of a pass, the file name is the bare sanitised
\* title with the extension, preceded by '<index> - ' exactly when the item has a
\* series and a series index that is present and not zero; an item with a series is
\* placed in the directory of the sanitised series name, an item without a series
\* in 'No Series' under the bare name whatever its series index is.
C19_IndexPrefixRule ==
    Planned =>
      \A pr \in Pairs(current_metadata) :
         LET b == current_metadata[pr[1]]
             target == TargetOf(current_metadata, pr)
             name == target[Len(target)]
             bare == BareName(b, pr[2])
         IN  /\ name # bare <=> ( HasSeries(b) /\ HasNonZeroIndex(b) )
             /\ name # bare => name = FormatIndex(b.series_index[1]) \o S_sep \o bare
             /\ HasSeries(b) /\ Sanitize(b.series[1]) # <<>>
                   => SubSeq(target, 1, Len(target) - 1) = << Sanitize(b.series[1]) >>
             /\ ~ HasSeries(b) => target = << S_NoSeries, bare >>

\* an item with a series and the index 0 has been materialised in the directory of
\* its series under its bare name, in a pass that also had an item without a series
\* and with an index that is not zero
C19_Witness ==
    /\ Planned
    /\ \E op \in to_process \ pendingP :
          LET b == current_metadata[op.book_id]
          IN  /\ HasSeries(b)
              /\ b.series_index = <<0>>
              /\ op.target_file = << Sanitize(b.series[1]), BareName(b, op.format_type) >>
              /\ op.target_file \in DOMAIN files
    /\ \E i \in DOMAIN current_metadata :
          ~ HasSeries(current_metadata[i]) /\ HasNonZeroIndex(current_metadata[i])

\* the name ends in the suffix when letter case is ignored
EndsWithAnyCase(name, suffix) == EndsWith(LowerStr(name), suffix)
DocumentSuffixes == { <<".","p","d","f">>, <<".","z","i","p">> }
ComicSuffixes == { <<".","c","b","r">>, <<".","c","b","z">> }

\* C20: in every pass that plans, every file that was under the output root when the
\* pass started and whose name ends in .pdf or .zip in any letter case, or ends in
\* .cbr or .cbz written with an upper-case letter, is in to_remove, whatever the
\* catalog and the cache hold.
C20_ForeignFilesRemoved ==
    Planned =>
      \A p \in DOMAIN files0 :
         LET name == p[Len(p)]
         IN  ( \/ \E suffix \in DocumentSuffixes : EndsWithAnyCase(name, suffix)
               \/ \E suffix \in ComicSuffixes :
                     EndsWithAnyCase(name, suffix) /\ ~ EndsWith(name, suffix) )
             => p \in to_remove

\* a pass has planned the removal of a .PDF file and of a .CBZ file, and not of a
\* .cbz file that is at the target path of an item of the catalog
C20_Witness ==
    /\ Planned
    /\ to_process # {}
    /\ P_staleFile \in DOMAIN files0
    /\ P_staleFile \notin to_remove
    /\ P_oldFile \in to_remove
    /\ P_upperFile \in to_remove
    /\ P_oldFile \in DOMAIN files0
    /\ P_upperFile \in DOMAIN files0

====
